---- MODULE Spec2Model ----
(***************************************************************************)
(* Authentication and session lifecycle of fowergram-backend: the JWTAuth  *)
(* service (pkg/auth), its PostgreSQL repositories (internal/domain/user)  *)
(* and the Redis rate limiter (pkg/middleware).                            *)
(*                                                                         *)
(* Time is counted in abstract ticks.  A Go error value is a sequence of   *)
(* strings: the empty sequence is nil, a one-element sequence is a         *)
(* sentinel AuthError or a fmt.Errorf text, and fmt.Errorf("p: %w", e)     *)
(* puts "p" in front of e.  A compact JWT string is the record of what its *)
(* header, payload and signature say.                                      *)
(***************************************************************************)
EXTENDS Integers, Sequences, FiniteSets, TLC

\* ------------------------------------------------------------- bounds ---

MaxTime == 2
MaxRefresh == 1
MaxTokens == 2
MaxClock == 4
\* The limiter's threshold and its window in ticks (5 requests and one
\* minute as the server configures it).
MaxRequests == 2
Window == 2

\* NewJWTAuth's accessTokenTTL and refreshTokenTTL (cmd/server/main.go), in
\* ticks: scaled down, keeping accessTokenTTL < refreshTokenTTL.
AccessTokenTTL == 1
RefreshTokenTTL == 2
\* The expiry SendVerificationEmail (24 hours) and RequestPasswordReset
\* (1 hour) give their tokens, in ticks, scaled down likewise.
VerificationTTL == 2
ResetTTL == 1

Procs == {1, 2}
IPs == {"10.0.0.1", "10.0.0.2"}
Emails == {"a@x.io", "b@x.io"}
Passwords == {"pw1", "pw2"}
Usernames == {"alice", "bob"}

SecretKey == "secret"
HMACAlgs == {"HS256", "HS384", "HS512"}
Algs == HMACAlgs \cup {"RS256", "none"}

VARIABLES
    now,             \* time.Now()
    users,           \* table users
    refresh_tokens,  \* table refresh_tokens
    held,            \* the access token a client keeps from SignIn or RefreshSession
    ret,             \* the last call: its operation, arguments and results
    email_verifications,  \* table email_verifications
    password_resets,      \* table password_resets
    pc,              \* where each concurrent request stands in its handler
    loc,             \* each concurrent request's arguments, locals and result
    counters,        \* Redis: the counter and the expiry time of each rate_limit key
    window,          \* per key, when its current window began and the requests admitted in it
    resp             \* the limiter's answer to the last request

vars == <<now, users, refresh_tokens, held, ret, email_verifications, password_resets,
          pc, loc, counters, window, resp>>

limiter == <<counters, window, resp>>

tokenTables == <<email_verifications, password_resets>>
requests == <<pc, loc>>

\* ------------------------------------------------------------- errors ---

Nil == << >>
ErrInvalidCredentials == <<"INVALID_CREDENTIALS">>
ErrUserNotFound == <<"USER_NOT_FOUND">>
ErrUserExists == <<"USER_EXISTS">>
ErrInvalidToken == <<"INVALID_TOKEN">>
ErrUnauthorized == <<"UNAUTHORIZED">>
ErrDeactivated == <<"account is deactivated">>
ErrUniqueViolation == <<"unique_violation">>

\* A failed round trip to PostgreSQL, and a failed dispatch of a mail.
ErrStore == <<"store failure">>
ErrMail == <<"mail failure">>

Wrap(prefix, err) == <<prefix>> \o err

\* errors.Is: target is err or one of the errors err wraps.
Is(err, target) ==
    /\ Len(err) >= Len(target)
    /\ SubSeq(err, Len(err) - Len(target) + 1, Len(err)) = target

\* --------------------------------------------------------------- JWTs ---

NULL == -1
NoUser == [id |-> 0, email |-> "", username |-> "", hashed_password |-> "",
           is_active |-> FALSE, is_verified |-> FALSE]
NoToken == [alg |-> "", key |-> "", user_id |-> 0, email |-> "", username |-> "",
            token_hash |-> 0, exp |-> 0]

\* bcrypt.GenerateFromPassword / bcrypt.CompareHashAndPassword
GenerateFromPassword(password) == "bcrypt:" \o password
CompareHashAndPassword(hash, password) == hash = "bcrypt:" \o password

\* generateAccessToken with the TTL left out of the expiry.
generateAccessTokenNoTTL(user, t) ==
    [alg |-> "HS256", key |-> SecretKey, user_id |-> user.id, email |-> user.email,
     username |-> user.username, token_hash |-> 0, exp |-> t]

generateAccessToken(user, t) ==
    [alg |-> "HS256", key |-> SecretKey, user_id |-> user.id, email |-> user.email,
     username |-> user.username, token_hash |-> 0, exp |-> t + AccessTokenTTL]

generateRefreshToken(user, tokenHash, t) ==
    [alg |-> "HS256", key |-> SecretKey, user_id |-> user.id, email |-> "",
     username |-> "", token_hash |-> tokenHash, exp |-> t + RefreshTokenTTL]

\* The key function given to jwt.ParseWithClaims.
keyFuncAccepts(alg) == alg \in HMACAlgs

\* parseWithClaims without the validation of the exp claim.
parseWithClaimsNoExp(tok, t) ==
    IF ~keyFuncAccepts(tok.alg) THEN <<"unexpected signing method">>
    ELSE IF tok.key # SecretKey THEN <<"signature is invalid">>
    ELSE Nil

\* jwt.ParseWithClaims: key function, signature, then the registered claims.
parseWithClaims(tok, t) ==
    IF ~keyFuncAccepts(tok.alg) THEN <<"unexpected signing method">>
    ELSE IF tok.key # SecretKey THEN <<"signature is invalid">>
    ELSE IF ~(t < tok.exp) THEN <<"token is expired">>
    ELSE Nil

parseAccessToken(tok, t) ==
    LET e == parseWithClaims(tok, t) IN
    IF e # Nil THEN [err |-> Wrap("invalid token", e), claims |-> NoToken]
    ELSE [err |-> Nil, claims |-> tok]

parseRefreshToken(tok, t) ==
    LET e == parseWithClaims(tok, t) IN
    IF e # Nil THEN [err |-> Wrap("invalid refresh token", e), claims |-> NoToken]
    ELSE [err |-> Nil, claims |-> tok]

\* ------------------------------------------------- postgresRepository ---

\* GetUserByEmail without "AND is_active = true".
GetUserByEmailAnyState(us, email) ==
    LET rows == {u \in us : u.email = email} IN
    IF rows = {} THEN [err |-> ErrUserNotFound, user |-> NoUser]
    ELSE [err |-> Nil, user |-> CHOOSE u \in rows : TRUE]

GetUserByEmail(us, email) ==
    LET rows == {u \in us : u.email = email /\ u.is_active} IN
    IF rows = {} THEN [err |-> ErrUserNotFound, user |-> NoUser]
    ELSE [err |-> Nil, user |-> CHOOSE u \in rows : TRUE]

\* GetUserByID without its WHERE id = $1: the newest row, whatever the id.
GetUserByIDAnyRow(us, id) ==
    IF us = {} THEN [err |-> ErrUserNotFound, user |-> NoUser]
    ELSE [err |-> Nil, user |-> CHOOSE u \in us : \A v \in us : v.id <= u.id]

GetUserByID(us, id) ==
    LET rows == {u \in us : u.id = id} IN
    IF rows = {} THEN [err |-> ErrUserNotFound, user |-> NoUser]
    ELSE [err |-> Nil, user |-> CHOOSE u \in rows : TRUE]

\* INSERT INTO users on a table without its unique constraints.
RepoCreateUserUnconstrained(us, user) == [err |-> Nil, users |-> us \cup {user}]

\* INSERT INTO users, under UNIQUE (email) and UNIQUE (username).
RepoCreateUser(us, user) ==
    IF \E u \in us : u.email = user.email \/ u.username = user.username
    THEN [err |-> Wrap("failed to create user", ErrUniqueViolation), users |-> us]
    ELSE [err |-> Nil, users |-> us \cup {user}]

UpdateUser(us, user) ==
    {IF u.id = user.id
     THEN [u EXCEPT !.email = user.email, !.username = user.username,
                    !.is_active = user.is_active, !.is_verified = user.is_verified]
     ELSE u : u \in us}

StoreRefreshToken(rts, userID, tokenHash, expiresAt) ==
    rts \cup {[token_hash |-> tokenHash, user_id |-> userID,
               expires_at |-> expiresAt, revoked_at |-> NULL]}

\* ValidateRefreshToken without "AND rt.revoked_at IS NULL".
ValidateRefreshTokenIgnoringRevocation(rts, us, tokenHash, t) ==
    LET rows == {u \in us : \E rt \in rts :
                    /\ rt.user_id = u.id
                    /\ rt.token_hash = tokenHash
                    /\ rt.expires_at > t
                    /\ u.is_active} IN
    IF rows = {} THEN [err |-> ErrInvalidToken, user |-> NoUser]
    ELSE [err |-> Nil, user |-> CHOOSE u \in rows : TRUE]

\* ValidateRefreshToken without "AND u.is_active = true".
ValidateRefreshTokenAnyAccount(rts, us, tokenHash, t) ==
    LET rows == {u \in us : \E rt \in rts :
                    /\ rt.user_id = u.id
                    /\ rt.token_hash = tokenHash
                    /\ rt.expires_at > t
                    /\ rt.revoked_at = NULL} IN
    IF rows = {} THEN [err |-> ErrInvalidToken, user |-> NoUser]
    ELSE [err |-> Nil, user |-> CHOOSE u \in rows : TRUE]

ValidateRefreshToken(rts, us, tokenHash, t) ==
    LET rows == {u \in us : \E rt \in rts :
                    /\ rt.user_id = u.id
                    /\ rt.token_hash = tokenHash
                    /\ rt.expires_at > t
                    /\ rt.revoked_at = NULL
                    /\ u.is_active} IN
    IF rows = {} THEN [err |-> ErrInvalidToken, user |-> NoUser]
    ELSE [err |-> Nil, user |-> CHOOSE u \in rows : TRUE]

\* RevokeRefreshToken without "AND revoked_at IS NULL".
RevokeRefreshTokenAgain(rts, tokenHash, t) ==
    {IF rt.token_hash = tokenHash THEN [rt EXCEPT !.revoked_at = t] ELSE rt : rt \in rts}

RevokeRefreshToken(rts, tokenHash, t) ==
    {IF rt.token_hash = tokenHash /\ rt.revoked_at = NULL
     THEN [rt EXCEPT !.revoked_at = t] ELSE rt : rt \in rts}

UpdatePassword(us, userID, hashedPassword) ==
    {IF u.id = userID THEN [u EXCEPT !.hashed_password = hashedPassword] ELSE u : u \in us}

\* ------------------------------------------- verification repository ---
\* A row of email_verifications or of password_resets.

StoreVerificationToken(evs, userID, token, expiresAt) ==
    evs \cup {[token |-> token, user_id |-> userID,
               expires_at |-> expiresAt, used_at |-> NULL]}

ValidateVerificationToken(evs, us, token, t) ==
    LET rows == {u \in us : \E ev \in evs :
                    /\ u.id = ev.user_id
                    /\ ev.token = token
                    /\ ev.expires_at > t
                    /\ ev.used_at = NULL} IN
    IF rows = {} THEN [err |-> ErrInvalidToken, user |-> NoUser]
    ELSE [err |-> Nil, user |-> CHOOSE u \in rows : TRUE]

\* MarkEmailVerified marking a single unused row of the account.
MarkEmailVerifiedOneRow(us, evs, userID, t) ==
    LET unused == {ev \in evs : ev.user_id = userID /\ ev.used_at = NULL}
        one == IF unused = {} THEN {}
               ELSE {CHOOSE ev \in unused : \A o \in unused : ev.token <= o.token}
    IN
    [users |-> {IF u.id = userID THEN [u EXCEPT !.is_verified = TRUE] ELSE u : u \in us},
     email_verifications |->
        {IF ev \in one THEN [ev EXCEPT !.used_at = t] ELSE ev : ev \in evs}]

\* One transaction: the account's is_verified is set and every unused
\* verification row of the account is marked used.
MarkEmailVerified(us, evs, userID, t) ==
    [users |-> {IF u.id = userID THEN [u EXCEPT !.is_verified = TRUE] ELSE u : u \in us},
     email_verifications |->
        {IF ev.user_id = userID /\ ev.used_at = NULL
         THEN [ev EXCEPT !.used_at = t] ELSE ev : ev \in evs}]

\* A failed transaction whose writes stay visible.
RollbackKeepingWrites(before, working) == working

\* "defer tx.Rollback(ctx)": what the transaction wrote is discarded.
Rollback(before, working) == before

\* MarkEmailVerified when Begin, one of its two updates, or Commit fails:
\* the tables as the failed call leaves them.
MarkEmailVerifiedFailing(us, evs, userID, t, failAt) ==
    LET before == [users |-> us, email_verifications |-> evs, err |-> Nil]
        afterUser == [before EXCEPT !.users =
                         {IF u.id = userID THEN [u EXCEPT !.is_verified = TRUE] ELSE u : u \in us}]
        afterToken == [afterUser EXCEPT !.email_verifications =
                         {IF ev.user_id = userID /\ ev.used_at = NULL
                          THEN [ev EXCEPT !.used_at = t] ELSE ev : ev \in evs}]
    IN
    CASE failAt = "Begin" ->
            [before EXCEPT !.err = Wrap("failed to begin transaction", ErrStore)]
      [] failAt = "updateUserQuery" ->
            [Rollback(before, before) EXCEPT
                !.err = Wrap("failed to update user verification status", ErrStore)]
      [] failAt = "updateTokenQuery" ->
            [Rollback(before, afterUser) EXCEPT
                !.err = Wrap("failed to mark verification token as used", ErrStore)]
      [] failAt = "Commit" ->
            [Rollback(before, afterToken) EXCEPT
                !.err = Wrap("failed to commit transaction", ErrStore)]

StorePasswordResetToken(prs, userID, token, expiresAt) ==
    prs \cup {[token |-> token, user_id |-> userID,
               expires_at |-> expiresAt, used_at |-> NULL]}

\* ValidatePasswordResetToken naming the condition that failed.
ValidatePasswordResetTokenTelling(prs, us, token, t) ==
    LET found == {pr \in prs : pr.token = token /\ \E u \in us : u.id = pr.user_id}
        rows == {u \in us : \E pr \in found : u.id = pr.user_id} IN
    IF found = {} THEN [err |-> ErrInvalidToken, user |-> NoUser]
    ELSE IF \A pr \in found : pr.used_at # NULL
    THEN [err |-> <<"token already used">>, user |-> NoUser]
    ELSE IF \A pr \in found : pr.expires_at <= t
    THEN [err |-> <<"token expired">>, user |-> NoUser]
    ELSE [err |-> Nil, user |-> CHOOSE u \in rows : TRUE]

ValidatePasswordResetToken(prs, us, token, t) ==
    LET rows == {u \in us : \E pr \in prs :
                    /\ u.id = pr.user_id
                    /\ pr.token = token
                    /\ pr.expires_at > t
                    /\ pr.used_at = NULL} IN
    IF rows = {} THEN [err |-> ErrInvalidToken, user |-> NoUser]
    ELSE [err |-> Nil, user |-> CHOOSE u \in rows : TRUE]

\* RevokePasswordResetToken leaving used_at as it was.
RevokePasswordResetTokenNoMark(prs, token, t) == prs

\* RevokePasswordResetToken marking every unused token of the token's
\* account, as MarkEmailVerified does for verification tokens.
RevokePasswordResetTokenOfAccount(prs, token, t) ==
    {IF pr.used_at = NULL /\ \E own \in prs : own.token = token /\ own.user_id = pr.user_id
     THEN [pr EXCEPT !.used_at = t] ELSE pr : pr \in prs}

RevokePasswordResetToken(prs, token, t) ==
    {IF pr.token = token /\ pr.used_at = NULL
     THEN [pr EXCEPT !.used_at = t] ELSE pr : pr \in prs}

\* ------------------------------------------------------------ JWTAuth ---

NoRet == [op |-> "none", email |-> "", password |-> "", username |-> "",
          tok |-> NoToken, n |-> 0, failAt |-> "", err |-> Nil, user |-> NoUser,
          token |-> NoToken]

\* An HTTP response not yet written.
\* The Authorization header of a request: its scheme prefix and the rest
\* of the string.  NoHeader is the header left out.
NoHeader == [scheme |-> "", token |-> NoToken]

NoResp == [key |-> "", path |-> "", header |-> NoHeader, status |-> 0, body |-> "",
           error |-> Nil, user |-> NoUser, access_token |-> NoToken,
           retry_after |-> 0, remaining |-> 0, next |-> FALSE, failAt |-> ""]

\* UserResponse{ID, Email, Username}
UserResponse(id, email, username) ==
    [NoUser EXCEPT !.id = id, !.email = email, !.username = username]

\* What the handlers of /signup, /signin, /verify-email and /reset-password
\* answer to a request whose body parsed, given what the service returned:
\* ErrorResponse{Error: err.Error()} for any error.
AuthHandlerSignup(err, user) ==
    IF err # Nil
    THEN [NoResp EXCEPT !.path = "/api/auth/signup", !.status = 400, !.error = err]
    ELSE [NoResp EXCEPT !.path = "/api/auth/signup", !.status = 200,
                        !.body = "User created successfully",
                        !.user = UserResponse(user.id, user.email, user.username)]

AuthHandlerSignin(err, user, token) ==
    IF err # Nil
    THEN [NoResp EXCEPT !.path = "/api/auth/signin", !.status = 401, !.error = err]
    ELSE [NoResp EXCEPT !.path = "/api/auth/signin", !.status = 200,
                        !.body = "Signed in successfully",
                        !.user = UserResponse(user.id, user.email, ""),
                        !.access_token = token]

AuthHandlerVerifyEmail(err) ==
    IF err # Nil
    THEN [NoResp EXCEPT !.path = "/api/auth/verify-email", !.status = 400, !.error = err]
    ELSE [NoResp EXCEPT !.path = "/api/auth/verify-email", !.status = 200,
                        !.body = "Email verified successfully"]

AuthHandlerResetPassword(err) ==
    IF err # Nil
    THEN [NoResp EXCEPT !.path = "/api/auth/reset-password", !.status = 400, !.error = err]
    ELSE [NoResp EXCEPT !.path = "/api/auth/reset-password", !.status = 200,
                        !.body = "Password reset successfully"]

Redact(user) == [user EXCEPT !.hashed_password = ""]

\* uuid.New()
NewUserID == Cardinality(users) + 1
\* hex of 32 bytes from crypto/rand
NewTokenHash == Cardinality(refresh_tokens) + 1

\* The refresh JWT that SignIn signed for a stored refresh record.
RefreshJWT(rt) ==
    generateRefreshToken([NoUser EXCEPT !.id = rt.user_id], rt.token_hash,
                         rt.expires_at - RefreshTokenTTL)

\* What a caller can present as a JWT: a string the service signed, or such
\* a string with another algorithm named in its header, or signed with
\* another key.
Presentable(tok) ==
    {tok} \cup {[tok EXCEPT !.alg = a] : a \in Algs} \cup {[tok EXCEPT !.key = "other"]}

AccessInputs == IF held = NoToken THEN {NoToken} ELSE Presentable(held)
RefreshInputs == {RefreshJWT(rt) : rt \in refresh_tokens}
TokenInputs == AccessInputs \cup RefreshInputs

\* The client keeps the new access token or the one it had.
Keep(accessToken) == held' \in {held, accessToken}

CreateUser(email, password, username) ==
    LET user == [id |-> NewUserID, email |-> email, username |-> username,
                 hashed_password |-> GenerateFromPassword(password),
                 is_active |-> TRUE, is_verified |-> FALSE]
        r == [NoRet EXCEPT !.op = "CreateUser", !.email = email,
                           !.password = password, !.username = username]
    IN
    /\ UNCHANGED <<now, refresh_tokens, held, tokenTables, requests, counters, window>>
    /\ IF GetUserByEmail(users, email).err = Nil
       THEN /\ ret' = [r EXCEPT !.err = ErrUserExists]
            /\ UNCHANGED users
       ELSE LET ins == RepoCreateUser(users, user) IN
            IF ins.err # Nil
            THEN /\ ret' = [r EXCEPT !.err = Wrap("failed to create user", ins.err)]
                 /\ UNCHANGED users
            ELSE /\ users' = ins.users
                 /\ ret' = [r EXCEPT !.user = Redact(user)]
    /\ resp' = AuthHandlerSignup(ret'.err, ret'.user)

\* A password mismatch reported with an error of its own.
signInMismatchDistinct == <<"wrong password">>

\* The error SignIn returns for a password that does not match.
signInMismatch == ErrInvalidCredentials

\* The checks of SignIn, before any token is generated.
SignInCheck(us, email, password) ==
    LET got == GetUserByEmail(us, email) IN
    IF got.err # Nil THEN [err |-> ErrInvalidCredentials, user |-> NoUser]
    ELSE IF ~got.user.is_active THEN [err |-> ErrDeactivated, user |-> NoUser]
    ELSE IF ~CompareHashAndPassword(got.user.hashed_password, password)
    THEN [err |-> signInMismatch, user |-> NoUser]
    ELSE [err |-> Nil, user |-> got.user]

SignIn(email, password) ==
    LET chk == SignInCheck(users, email, password)
        user == chk.user
        r == [NoRet EXCEPT !.op = "SignIn", !.email = email, !.password = password]
        accessToken == generateAccessToken(user, now)
        tokenHash == NewTokenHash
    IN
    /\ UNCHANGED <<now, users, tokenTables, requests, counters, window>>
    /\ IF chk.err # Nil
       THEN /\ ret' = [r EXCEPT !.err = chk.err]
            /\ UNCHANGED <<refresh_tokens, held>>
       ELSE /\ Cardinality(refresh_tokens) < MaxRefresh
            /\ refresh_tokens' = StoreRefreshToken(refresh_tokens, user.id, tokenHash,
                                                   now + RefreshTokenTTL)
            /\ Keep(accessToken)
            /\ ret' = [r EXCEPT !.user = Redact(user), !.token = accessToken]
    /\ resp' = AuthHandlerSignin(ret'.err, ret'.user, ret'.token)

SignOut(sessionHandle) ==
    LET parsed == parseRefreshToken(sessionHandle, now)
        r == [NoRet EXCEPT !.op = "SignOut", !.tok = sessionHandle]
    IN
    /\ UNCHANGED <<now, users, held, tokenTables, requests, counters, window>>
    /\ IF parsed.err # Nil
       THEN /\ ret' = [r EXCEPT !.err = parsed.err]
            /\ UNCHANGED refresh_tokens
       ELSE /\ refresh_tokens' = RevokeRefreshToken(refresh_tokens, parsed.claims.token_hash, now)
            /\ ret' = r
    /\ resp' = NoResp

\* RefreshSession revoking the refresh record it was given.
RefreshSessionRotating(refreshToken) ==
    LET parsed == parseRefreshToken(refreshToken, now)
        got == ValidateRefreshToken(refresh_tokens, users, parsed.claims.token_hash, now)
        r == [NoRet EXCEPT !.op = "RefreshSession", !.tok = refreshToken]
        accessToken == generateAccessToken(got.user, now)
    IN
    /\ UNCHANGED <<now, users, tokenTables, requests, counters, window>>
    /\ IF parsed.err # Nil
       THEN /\ ret' = [r EXCEPT !.err = parsed.err]
            /\ UNCHANGED <<held, refresh_tokens>>
       ELSE IF got.err # Nil
       THEN /\ ret' = [r EXCEPT !.err = Wrap("invalid refresh token", got.err)]
            /\ UNCHANGED <<held, refresh_tokens>>
       ELSE /\ Keep(accessToken)
            /\ refresh_tokens' =
                  RevokeRefreshToken(refresh_tokens, parsed.claims.token_hash, now)
            /\ ret' = [r EXCEPT !.user = Redact(got.user), !.token = accessToken]
    /\ resp' = NoResp

RefreshSession(refreshToken) ==
    LET parsed == parseRefreshToken(refreshToken, now)
        got == ValidateRefreshToken(refresh_tokens, users, parsed.claims.token_hash, now)
        r == [NoRet EXCEPT !.op = "RefreshSession", !.tok = refreshToken]
        accessToken == generateAccessToken(got.user, now)
    IN
    /\ UNCHANGED <<now, users, refresh_tokens, tokenTables, requests, counters, window>>
    /\ IF parsed.err # Nil
       THEN /\ ret' = [r EXCEPT !.err = parsed.err]
            /\ UNCHANGED held
       ELSE IF got.err # Nil
       THEN /\ ret' = [r EXCEPT !.err = Wrap("invalid refresh token", got.err)]
            /\ UNCHANGED held
       ELSE /\ Keep(accessToken)
            /\ ret' = [r EXCEPT !.user = Redact(got.user), !.token = accessToken]
    /\ resp' = NoResp

\* ValidateSession without the check of the account's is_active.
ValidateSessionResultTrustingClaims(us, accessToken, t) ==
    LET parsed == parseAccessToken(accessToken, t)
        got == GetUserByID(us, parsed.claims.user_id)
    IN
    IF parsed.err # Nil THEN [err |-> parsed.err, user |-> NoUser]
    ELSE IF got.err # Nil THEN [err |-> ErrUnauthorized, user |-> NoUser]
    ELSE [err |-> Nil, user |-> Redact(got.user)]

\* The result of ValidateSession, which changes no state.
\* ValidateSession also asking for an unrevoked refresh record of the
\* token's account.
ValidateSessionResultNeedingRecord(us, accessToken, t) ==
    LET parsed == parseAccessToken(accessToken, t)
        got == GetUserByID(us, parsed.claims.user_id)
    IN
    IF parsed.err # Nil THEN [err |-> parsed.err, user |-> NoUser]
    ELSE IF got.err # Nil THEN [err |-> ErrUnauthorized, user |-> NoUser]
    ELSE IF ~got.user.is_active THEN [err |-> ErrDeactivated, user |-> NoUser]
    ELSE IF ~\E rt \in refresh_tokens : rt.user_id = got.user.id /\ rt.revoked_at = NULL
    THEN [err |-> ErrUnauthorized, user |-> NoUser]
    ELSE [err |-> Nil, user |-> Redact(got.user)]

ValidateSessionResult(us, accessToken, t) ==
    LET parsed == parseAccessToken(accessToken, t)
        got == GetUserByID(us, parsed.claims.user_id)
    IN
    IF parsed.err # Nil THEN [err |-> parsed.err, user |-> NoUser]
    ELSE IF got.err # Nil THEN [err |-> ErrUnauthorized, user |-> NoUser]
    ELSE IF ~got.user.is_active THEN [err |-> ErrDeactivated, user |-> NoUser]
    ELSE [err |-> Nil, user |-> Redact(got.user)]

ValidateSession(accessToken) ==
    LET res == ValidateSessionResult(users, accessToken, now) IN
    /\ UNCHANGED <<now, users, refresh_tokens, held, tokenTables, requests, counters, window>>
    /\ ret' = [NoRet EXCEPT !.op = "ValidateSession", !.tok = accessToken,
                            !.err = res.err, !.user = res.user]
    /\ resp' = NoResp

DeleteUser(userID) ==
    LET got == GetUserByID(users, userID)
        r == [NoRet EXCEPT !.op = "DeleteUser", !.user = [NoUser EXCEPT !.id = userID]]
    IN
    /\ UNCHANGED <<now, refresh_tokens, held, tokenTables, requests, counters, window>>
    /\ IF got.err # Nil
       THEN /\ ret' = [r EXCEPT !.err = got.err]
            /\ UNCHANGED users
       ELSE /\ users' = UpdateUser(users, [got.user EXCEPT !.is_active = FALSE])
            /\ ret' = r
    /\ resp' = NoResp

ErrEmailAlreadyVerified == <<"Email already verified">>

\* base64 of 32 bytes from crypto/rand
NewVerificationToken == Cardinality(email_verifications) + 1
NewResetToken == Cardinality(password_resets) + 1

\* The token strings a caller can present: one that was mailed, or another.
VerificationInputs == {ev.token : ev \in email_verifications} \cup {0}
ResetInputs == {pr.token : pr \in password_resets} \cup {0}

VerifyEmail(token) ==
    LET v == ValidateVerificationToken(email_verifications, users, token, now)
        marked == MarkEmailVerified(users, email_verifications, v.user.id, now)
        r == [NoRet EXCEPT !.op = "VerifyEmail", !.n = token]
    IN
    /\ UNCHANGED <<now, refresh_tokens, held, password_resets, requests, counters, window>>
    /\ IF v.err # Nil
       THEN /\ ret' = [r EXCEPT !.err = Wrap("failed to validate verification token", v.err)]
            /\ UNCHANGED <<users, email_verifications>>
       ELSE IF v.user.is_verified
       THEN /\ ret' = [r EXCEPT !.err = ErrEmailAlreadyVerified]
            /\ UNCHANGED <<users, email_verifications>>
       ELSE /\ users' = marked.users
            /\ email_verifications' = marked.email_verifications
            /\ ret' = r
    /\ resp' = AuthHandlerVerifyEmail(ret'.err)

\* VerifyEmail when a store call fails: the validation, or a step of
\* MarkEmailVerified.
VerifyEmailFailing(token, failAt) ==
    LET v == ValidateVerificationToken(email_verifications, users, token, now)
        left == MarkEmailVerifiedFailing(users, email_verifications, v.user.id, now, failAt)
        r == [NoRet EXCEPT !.op = "VerifyEmail", !.n = token]
    IN
    /\ UNCHANGED <<now, refresh_tokens, held, password_resets, requests, counters, window>>
    /\ IF failAt = "ValidateVerificationToken"
       THEN /\ ret' = [r EXCEPT !.err =
                          Wrap("failed to validate verification token",
                               Wrap("failed to validate verification token", ErrStore))]
            /\ UNCHANGED <<users, email_verifications>>
       ELSE /\ v.err = Nil
            /\ ~v.user.is_verified
            /\ users' = left.users
            /\ email_verifications' = left.email_verifications
            /\ ret' = [r EXCEPT !.err = Wrap("failed to mark email as verified", left.err)]
    /\ resp' = AuthHandlerVerifyEmail(ret'.err)

SendVerificationEmail(email) ==
    LET got == GetUserByEmail(users, email)
        r == [NoRet EXCEPT !.op = "SendVerificationEmail", !.email = email]
    IN
    /\ UNCHANGED <<now, users, refresh_tokens, held, password_resets, requests, counters, window>>
    /\ IF got.err # Nil
       THEN /\ ret' = [r EXCEPT !.err = Wrap("failed to get user", got.err)]
            /\ UNCHANGED email_verifications
       ELSE IF got.user.is_verified
       THEN /\ ret' = [r EXCEPT !.err = ErrEmailAlreadyVerified]
            /\ UNCHANGED email_verifications
       ELSE /\ Cardinality(email_verifications) < MaxTokens
            /\ email_verifications' =
                  StoreVerificationToken(email_verifications, got.user.id,
                                         NewVerificationToken, now + VerificationTTL)
            /\ ret' = [r EXCEPT !.n = NewVerificationToken]
    /\ resp' = NoResp

ResetRequestedMessage == "If your email is registered, you will receive a password reset link"

\* AuthHandler.RequestPasswordReset answering 500 when the service fails.
AuthHandlerRequestPasswordResetSurfacing(err) ==
    IF err # Nil
    THEN [NoResp EXCEPT !.status = 500, !.body = "Internal server error"]
    ELSE [NoResp EXCEPT !.status = 200, !.body = ResetRequestedMessage]

\* What AuthHandler.RequestPasswordReset answers to a request whose body
\* parsed, given what the service returned.
AuthHandlerRequestPasswordReset(err) ==
    IF err # Nil
    THEN [NoResp EXCEPT !.status = 200, !.body = ResetRequestedMessage]
    ELSE [NoResp EXCEPT !.status = 200, !.body = ResetRequestedMessage]

\* A request to /request-password-reset: the service call and the
\* handler's answer to it.
RequestPasswordReset(email) ==
    LET got == GetUserByEmail(users, email)
        r == [NoRet EXCEPT !.op = "RequestPasswordReset", !.email = email]
    IN
    /\ UNCHANGED <<now, users, refresh_tokens, held, email_verifications, requests,
                   counters, window>>
    /\ IF got.err # Nil
       THEN /\ ret' = r
            /\ UNCHANGED password_resets
       ELSE /\ Cardinality(password_resets) < MaxTokens
            /\ password_resets' =
                  StorePasswordResetToken(password_resets, got.user.id,
                                          NewResetToken, now + ResetTTL)
            /\ ret' = [r EXCEPT !.n = NewResetToken]
    /\ resp' = AuthHandlerRequestPasswordReset(ret'.err)

\* The same request when a collaborator fails: the lookup, the insert of
\* the token or the dispatch of the mail.
RequestPasswordResetFailing(email, failAt) ==
    LET got == GetUserByEmail(users, email)
        r == [NoRet EXCEPT !.op = "RequestPasswordReset", !.email = email]
    IN
    /\ UNCHANGED <<now, users, refresh_tokens, held, email_verifications, requests,
                   counters, window>>
    /\ CASE failAt = "GetUserByEmail" ->
              /\ ret' = r
              /\ UNCHANGED password_resets
         [] failAt = "StorePasswordResetToken" ->
              /\ got.err = Nil
              /\ ret' = [r EXCEPT !.err =
                            Wrap("failed to store password reset token",
                                 Wrap("failed to store password reset token", ErrStore))]
              /\ UNCHANGED password_resets
         [] failAt = "SendPasswordResetEmail" ->
              /\ got.err = Nil
              /\ Cardinality(password_resets) < MaxTokens
              /\ password_resets' =
                    StorePasswordResetToken(password_resets, got.user.id,
                                            NewResetToken, now + ResetTTL)
              /\ ret' = [r EXCEPT !.n = NewResetToken, !.err =
                            Wrap("failed to send password reset email", ErrMail)]
    /\ resp' = AuthHandlerRequestPasswordReset(ret'.err)

ResetPassword(token, newPassword) ==
    LET v == ValidatePasswordResetToken(password_resets, users, token, now)
        hashedPassword == GenerateFromPassword(newPassword)
        r == [NoRet EXCEPT !.op = "ResetPassword", !.n = token, !.password = newPassword]
    IN
    /\ UNCHANGED <<now, refresh_tokens, held, email_verifications, requests, counters, window>>
    /\ IF v.err # Nil
       THEN /\ ret' = [r EXCEPT !.err = Wrap("failed to validate password reset token", v.err)]
            /\ UNCHANGED <<users, password_resets>>
       ELSE /\ users' = UpdatePassword(users, v.user.id, hashedPassword)
            /\ password_resets' = RevokePasswordResetToken(password_resets, token, now)
            /\ ret' = r
    /\ resp' = AuthHandlerResetPassword(ret'.err)

\* ResetPassword when a store call fails: the validation, the update of the
\* password, or the revocation of the token.
ResetPasswordFailing(token, newPassword, failAt) ==
    LET v == ValidatePasswordResetToken(password_resets, users, token, now)
        hashedPassword == GenerateFromPassword(newPassword)
        r == [NoRet EXCEPT !.op = "ResetPassword", !.n = token, !.password = newPassword]
    IN
    /\ UNCHANGED <<now, refresh_tokens, held, email_verifications, requests, counters, window>>
    /\ UNCHANGED password_resets
    /\ CASE failAt = "ValidatePasswordResetToken" ->
              /\ ret' = [r EXCEPT !.err =
                            Wrap("failed to validate password reset token",
                                 Wrap("failed to validate password reset token", ErrStore))]
              /\ UNCHANGED users
         [] failAt = "UpdatePassword" ->
              /\ v.err = Nil
              /\ ret' = [r EXCEPT !.err =
                            Wrap("failed to update password",
                                 Wrap("failed to update password", ErrStore))]
              /\ UNCHANGED users
         [] failAt = "RevokePasswordResetToken" ->
              /\ v.err = Nil
              /\ users' = UpdatePassword(users, v.user.id, hashedPassword)
              /\ ret' = [r EXCEPT !.err =
                            Wrap("failed to revoke password reset token",
                                 Wrap("failed to revoke password reset token", ErrStore))]
    /\ resp' = AuthHandlerResetPassword(ret'.err)

\* --------------------------------------------- requests in parallel ---
\* The same handlers, one store round trip per step, for requests that are
\* served at the same time.  pc[p] names the statement request p has
\* reached and loc[p] holds its arguments, its local user and its result.

Return(p, err) ==
    /\ pc' = [pc EXCEPT ![p] = "done"]
    /\ loc' = [loc EXCEPT ![p].err = err]

\* ResetPassword up to the return of ValidatePasswordResetToken.
ResetPasswordValidate(p, token, newPassword) ==
    LET v == ValidatePasswordResetToken(password_resets, users, token, now)
        r == [NoRet EXCEPT !.op = "ResetPassword", !.n = token, !.password = newPassword]
    IN
    /\ pc[p] = "idle"
    /\ UNCHANGED <<now, users, refresh_tokens, held, ret, tokenTables, limiter>>
    /\ IF v.err # Nil
       THEN /\ pc' = [pc EXCEPT ![p] = "done"]
            /\ loc' = [loc EXCEPT ![p] =
                  [r EXCEPT !.err = Wrap("failed to validate password reset token", v.err)]]
       ELSE /\ pc' = [pc EXCEPT ![p] = "UpdatePassword"]
            /\ loc' = [loc EXCEPT ![p] = [r EXCEPT !.user = v.user]]

\* ResetPassword: the password is hashed and UpdatePassword runs.
ResetPasswordUpdate(p) ==
    /\ pc[p] = "UpdatePassword"
    /\ users' = UpdatePassword(users, loc[p].user.id, GenerateFromPassword(loc[p].password))
    /\ pc' = [pc EXCEPT ![p] = "RevokePasswordResetToken"]
    /\ UNCHANGED <<now, refresh_tokens, held, ret, tokenTables, loc, limiter>>

\* ResetPassword: RevokePasswordResetToken runs and the call returns nil.
ResetPasswordRevoke(p) ==
    /\ pc[p] = "RevokePasswordResetToken"
    /\ password_resets' = RevokePasswordResetToken(password_resets, loc[p].n, now)
    /\ Return(p, Nil)
    /\ UNCHANGED <<now, users, refresh_tokens, held, ret, email_verifications, limiter>>

\* VerifyEmail up to the test of user.IsVerified.
VerifyEmailValidate(p, token) ==
    LET v == ValidateVerificationToken(email_verifications, users, token, now)
        r == [NoRet EXCEPT !.op = "VerifyEmail", !.n = token]
    IN
    /\ pc[p] = "idle"
    /\ UNCHANGED <<now, users, refresh_tokens, held, ret, tokenTables, limiter>>
    /\ IF v.err # Nil
       THEN /\ pc' = [pc EXCEPT ![p] = "done"]
            /\ loc' = [loc EXCEPT ![p] =
                  [r EXCEPT !.err = Wrap("failed to validate verification token", v.err)]]
       ELSE IF v.user.is_verified
       THEN /\ pc' = [pc EXCEPT ![p] = "done"]
            /\ loc' = [loc EXCEPT ![p] = [r EXCEPT !.err = ErrEmailAlreadyVerified]]
       ELSE /\ pc' = [pc EXCEPT ![p] = "MarkEmailVerified"]
            /\ loc' = [loc EXCEPT ![p] = [r EXCEPT !.user = v.user]]

\* VerifyEmail: the transaction of MarkEmailVerified runs and the call
\* returns nil.
VerifyEmailMark(p) ==
    LET marked == MarkEmailVerified(users, email_verifications, loc[p].user.id, now) IN
    /\ pc[p] = "MarkEmailVerified"
    /\ users' = marked.users
    /\ email_verifications' = marked.email_verifications
    /\ Return(p, Nil)
    /\ UNCHANGED <<now, refresh_tokens, held, ret, password_resets, limiter>>

\* CreateUser up to the test of GetUserByEmail's error.
CreateUserCheck(p, email, password, username) ==
    LET r == [NoRet EXCEPT !.op = "CreateUser", !.email = email,
                           !.password = password, !.username = username]
    IN
    /\ pc[p] = "idle"
    /\ UNCHANGED <<now, users, refresh_tokens, held, ret, tokenTables, limiter>>
    /\ IF GetUserByEmail(users, email).err = Nil
       THEN /\ pc' = [pc EXCEPT ![p] = "done"]
            /\ loc' = [loc EXCEPT ![p] = [r EXCEPT !.err = ErrUserExists]]
       ELSE /\ pc' = [pc EXCEPT ![p] = "CreateUser"]
            /\ loc' = [loc EXCEPT ![p] = r]

\* CreateUser: the password is hashed, the INSERT runs and the call returns.
CreateUserInsert(p) ==
    LET user == [id |-> NewUserID, email |-> loc[p].email, username |-> loc[p].username,
                 hashed_password |-> GenerateFromPassword(loc[p].password),
                 is_active |-> TRUE, is_verified |-> FALSE]
        ins == RepoCreateUser(users, user)
    IN
    /\ pc[p] = "CreateUser"
    /\ users' = ins.users
    /\ pc' = [pc EXCEPT ![p] = "done"]
    /\ loc' = [loc EXCEPT ![p] =
          IF ins.err # Nil
          THEN [@ EXCEPT !.err = Wrap("failed to create user", ins.err)]
          ELSE [@ EXCEPT !.user = Redact(user)]]
    /\ UNCHANGED <<now, refresh_tokens, held, ret, tokenTables, limiter>>

\* ------------------------------------------------------- rate limiter ---
\* Redis holds, per key, a counter and the time its key expires; a key
\* that is absent reads as count 0.

NoKey == [count |-> 0, expire_at |-> NULL]
Live(c, t) == c.count > 0 /\ (c.expire_at = NULL \/ t < c.expire_at)

\* GET key, read as an int64: redis.Nil leaves the count at 0.
Get(cs, key, t) == IF Live(cs[key], t) THEN cs[key].count ELSE 0

\* INCR key: an absent key starts from 0 and has no expiry.
Incr(cs, key, t) ==
    IF Live(cs[key], t) THEN [cs EXCEPT ![key].count = @ + 1]
    ELSE [cs EXCEPT ![key] = [count |-> 1, expire_at |-> NULL]]

\* EXPIRE key ttl NX: the expiry is set only on a key that has none.
ExpireNX(cs, key, ttl, t) ==
    IF Live(cs[key], t) /\ cs[key].expire_at = NULL
    THEN [cs EXCEPT ![key].expire_at = t + ttl] ELSE cs

\* EXPIRE key ttl
Expire(cs, key, ttl, t) ==
    IF Live(cs[key], t) THEN [cs EXCEPT ![key].expire_at = t + ttl] ELSE cs

\* The limit test with > in place of >=.
overLimitStrict(count) == count > MaxRequests

\* "if count >= r.config.MaxRequests"
overLimit(count) == count >= MaxRequests

\* The window of a key after a request is admitted at time t: the request
\* opens a window unless one that began less than Window ago is open.
Admit(w, t) ==
    IF w.start = NULL \/ t >= w.start + Window
    THEN [w EXCEPT !.start = t, !.admitted = 1, !.last = t]
    ELSE [w EXCEPT !.admitted = @ + 1, !.last = t]

\* One request through RateLimiter.Middleware, from the GET to c.Next().
Middleware(ip) ==
    LET count == Get(counters, ip, now)
        incremented == Incr(counters, ip, now)
    IN
    /\ UNCHANGED <<now, users, refresh_tokens, held, ret, tokenTables, requests>>
    /\ IF overLimit(count)
       THEN /\ resp' = [NoResp EXCEPT !.key = ip, !.status = 429, !.retry_after = Window]
            /\ UNCHANGED <<counters, window>>
       ELSE /\ counters' = Expire(incremented, ip, Window, now)
            /\ window' = [window EXCEPT ![ip] = Admit(@, now)]
            /\ resp' = [NoResp EXCEPT !.key = ip, !.status = 200, !.next = TRUE,
                                      !.remaining = MaxRequests - incremented[ip].count]

\* The answer to a Redis error, with the request passed on all the same.
redisErrorOpen(req) == [req EXCEPT !.status = 200, !.next = TRUE]

\* "return c.Status(500).JSON(fiber.Map{"error": "Internal server error"})"
redisError(req) == [req EXCEPT !.status = 500, !.error = <<"Internal server error">>]

\* One request through RateLimiter.Middleware while Redis fails: the GET
\* with an error other than redis.Nil, or the Exec of the pipeline, after
\* which none, the first or both of its commands may have been executed.
MiddlewareFailing(ip, failAt) ==
    LET count == Get(counters, ip, now)
        incremented == Incr(counters, ip, now)
        req == [NoResp EXCEPT !.key = ip, !.failAt = failAt]
    IN
    /\ UNCHANGED <<now, users, refresh_tokens, held, ret, tokenTables, requests, window>>
    /\ IF failAt = "Get"
       THEN /\ resp' = redisError(req)
            /\ UNCHANGED counters
       ELSE /\ ~overLimit(count)
            /\ counters' \in {counters, incremented, Expire(incremented, ip, Window, now)}
            /\ resp' = redisError(req)

\* The middleware one Redis round trip per step, for requests that are
\* served at the same time: loc[p] holds the key of request p and the count
\* its GET returned.

\* Middleware up to the limit test.
MiddlewareGet(p, ip) ==
    LET count == Get(counters, ip, now) IN
    /\ pc[p] = "idle"
    /\ UNCHANGED <<now, users, refresh_tokens, held, ret, tokenTables, counters, window>>
    /\ IF overLimit(count)
       THEN /\ resp' = [NoResp EXCEPT !.key = ip, !.status = 429, !.retry_after = Window]
            /\ UNCHANGED requests
       ELSE /\ pc' = [pc EXCEPT ![p] = "Incr"]
            /\ loc' = [loc EXCEPT ![p] = [key |-> ip, count |-> count]]
            /\ UNCHANGED resp

\* The INCR of the pipeline reaches Redis.
MiddlewareIncr(p) ==
    LET incremented == Incr(counters, loc[p].key, now) IN
    /\ pc[p] = "Incr"
    /\ counters' = incremented
    /\ pc' = [pc EXCEPT ![p] = "Expire"]
    /\ loc' = [loc EXCEPT ![p].count = incremented[loc[p].key].count]
    /\ UNCHANGED <<now, users, refresh_tokens, held, ret, tokenTables, window, resp>>

\* The EXPIRE of the pipeline reaches Redis, the headers are set and the
\* request goes on to c.Next().
MiddlewareExpire(p) ==
    /\ pc[p] = "Expire"
    /\ counters' = Expire(counters, loc[p].key, Window, now)
    /\ window' = [window EXCEPT ![loc[p].key] = Admit(@, now)]
    /\ resp' = [NoResp EXCEPT !.key = loc[p].key, !.status = 200, !.next = TRUE,
                              !.remaining = MaxRequests - loc[p].count]
    /\ pc' = [pc EXCEPT ![p] = "idle"]
    /\ UNCHANGED <<now, users, refresh_tokens, held, ret, tokenTables, loc>>

\* The clock advances and Redis drops the keys whose expiry has come.
Elapse ==
    /\ now < MaxClock
    /\ now' = now + 1
    /\ counters' = [ip \in IPs |-> IF Live(counters[ip], now + 1) THEN counters[ip] ELSE NoKey]
    /\ resp' = NoResp
    /\ UNCHANGED <<users, refresh_tokens, held, ret, tokenTables, requests, window>>

\* The clock advances between calls.
Tick ==
    /\ now < MaxTime
    /\ now' = now + 1
    /\ ret' = NoRet
    /\ UNCHANGED <<users, refresh_tokens, held, tokenTables, requests, counters, window>>
    /\ resp' = NoResp

\* ------------------------------------------------- the request gate ---

\* The paths JWTAuth.Middleware lets through without a token.
PublicPaths ==
    {"/health", "/metrics", "/playground", "/api/auth/signup", "/api/auth/signin",
     "/api/auth/verify-email", "/api/auth/request-password-reset",
     "/api/auth/reset-password"}

\* strings.TrimPrefix(authHeader, "Bearer ")
TrimPrefix(authHeader) ==
    IF authHeader.scheme = "Bearer "
    THEN [scheme |-> "", token |-> authHeader.token]
    ELSE authHeader

\* JWTAuth.Middleware taking a header without the "Bearer " prefix as the
\* token.
AuthMiddlewareResultAnyScheme(us, path, authHeader, t) ==
    LET req == [NoResp EXCEPT !.path = path, !.header = authHeader]
        v == ValidateSessionResult(us, authHeader.token, t)
    IN
    IF path \in PublicPaths THEN [req EXCEPT !.next = TRUE]
    ELSE IF authHeader = NoHeader
    THEN [req EXCEPT !.status = 401, !.error = <<"Authorization header required">>]
    ELSE IF v.err # Nil
    THEN [req EXCEPT !.status = 401, !.error = <<"Invalid token">>]
    ELSE [req EXCEPT !.next = TRUE, !.user = v.user]

\* What JWTAuth.Middleware does with a request: it answers 401, or it
\* passes the request on (next), with the user it put in c.Locals.
AuthMiddlewareResult(us, path, authHeader, t) ==
    LET req == [NoResp EXCEPT !.path = path, !.header = authHeader]
        tokenString == TrimPrefix(authHeader)
        v == ValidateSessionResult(us, tokenString.token, t)
    IN
    IF path \in PublicPaths THEN [req EXCEPT !.next = TRUE]
    ELSE IF authHeader = NoHeader
    THEN [req EXCEPT !.status = 401, !.error = <<"Authorization header required">>]
    ELSE IF tokenString = authHeader
    THEN [req EXCEPT !.status = 401, !.error = <<"Invalid authorization format">>]
    ELSE IF v.err # Nil
    THEN [req EXCEPT !.status = 401, !.error = <<"Invalid token">>]
    ELSE [req EXCEPT !.next = TRUE, !.user = v.user]

\* The call of ValidateSession the middleware makes, if it makes one.
GateCall(path, authHeader) ==
    IF path \in PublicPaths \/ authHeader = NoHeader \/ TrimPrefix(authHeader) = authHeader
    THEN NoRet
    ELSE LET v == ValidateSessionResult(users, TrimPrefix(authHeader).token, now) IN
         [NoRet EXCEPT !.op = "ValidateSession", !.tok = TrimPrefix(authHeader).token,
                       !.err = v.err, !.user = v.user]

\* A request to a route behind JWTAuth.Middleware, up to the handler.
AuthMiddleware(path, authHeader) ==
    /\ resp' = AuthMiddlewareResult(users, path, authHeader, now)
    /\ ret' = GateCall(path, authHeader)
    /\ UNCHANGED <<now, users, refresh_tokens, held, tokenTables, requests, counters, window>>

\* GET /api/auth/me: the middleware, then AuthHandler.Me.
Me(authHeader) ==
    LET gate == AuthMiddlewareResult(users, "/api/auth/me", authHeader, now) IN
    /\ resp' = IF ~gate.next THEN gate
               ELSE IF gate.user = NoUser
               THEN [gate EXCEPT !.status = 401, !.error = <<"Not authenticated">>]
               ELSE [gate EXCEPT !.status = 200,
                        !.user = UserResponse(gate.user.id, gate.user.email,
                                              gate.user.username)]
    /\ ret' = GateCall("/api/auth/me", authHeader)
    /\ UNCHANGED <<now, users, refresh_tokens, held, tokenTables, requests, counters, window>>

\* POST /api/auth/signout: the route is registered before the group that
\* uses the middleware, so the request reaches AuthHandler.Signout at once.
Signout(authHeader) ==
    /\ resp' = [NoResp EXCEPT !.path = "/api/auth/signout", !.header = authHeader,
                              !.status = 200, !.body = "Signed out successfully"]
    /\ ret' = NoRet
    /\ UNCHANGED <<now, users, refresh_tokens, held, tokenTables, requests, counters, window>>

\* GetUserByID when the query fails for another reason than pgx.ErrNoRows.
GetUserByIDFailing(us, id) ==
    [err |-> Wrap("failed to get user by ID", ErrStore), user |-> NoUser]

\* ValidateSession when the store fails under GetUserByID.
ValidateSessionResultFailing(us, accessToken, t) ==
    LET parsed == parseAccessToken(accessToken, t)
        got == GetUserByIDFailing(us, parsed.claims.user_id)
    IN
    IF parsed.err # Nil THEN [err |-> parsed.err, user |-> NoUser]
    ELSE IF got.err # Nil THEN [err |-> ErrUnauthorized, user |-> NoUser]
    ELSE IF ~got.user.is_active THEN [err |-> ErrDeactivated, user |-> NoUser]
    ELSE [err |-> Nil, user |-> Redact(got.user)]

\* A ValidateSession call that reaches the store, and the store fails.
ValidateSessionFailing(accessToken) ==
    LET res == ValidateSessionResultFailing(users, accessToken, now) IN
    /\ parseAccessToken(accessToken, now).err = Nil
    /\ UNCHANGED <<now, users, refresh_tokens, held, tokenTables, requests, counters, window>>
    /\ ret' = [NoRet EXCEPT !.op = "ValidateSession", !.tok = accessToken,
                            !.failAt = "GetUserByID", !.err = res.err, !.user = res.user]
    /\ resp' = NoResp

\* A request behind JWTAuth.Middleware whose ValidateSession reaches the
\* store, and the store fails.
AuthMiddlewareFailing(path, authHeader) ==
    LET req == [NoResp EXCEPT !.path = path, !.header = authHeader]
        tokenString == TrimPrefix(authHeader)
        v == ValidateSessionResultFailing(users, tokenString.token, now)
    IN
    /\ path \notin PublicPaths
    /\ authHeader # NoHeader
    /\ tokenString # authHeader
    /\ parseAccessToken(tokenString.token, now).err = Nil
    /\ resp' = IF v.err # Nil
               THEN [req EXCEPT !.status = 401, !.error = <<"Invalid token">>]
               ELSE [req EXCEPT !.next = TRUE, !.user = v.user]
    /\ ret' = [NoRet EXCEPT !.op = "ValidateSession", !.tok = tokenString.token,
                            !.failAt = "GetUserByID", !.err = v.err, !.user = v.user]
    /\ UNCHANGED <<now, users, refresh_tokens, held, tokenTables, requests, counters, window>>

\* The Authorization headers a client sends: none, or the access token it
\* holds, as signed or signed with another key, after "Bearer ", after
\* another scheme, or bare.
GateHeaders ==
    {NoHeader} \cup
    {[scheme |-> sc, token |-> tok] :
        sc \in {"Bearer ", "Basic ", ""},
        tok \in IF held = NoToken THEN {NoToken} ELSE {held, [held EXCEPT !.key = "other"]}}

\* ------------------------------------------- the validations probed ---
\* One call of a repository validation, for a token string that is stored
\* or is not, with what it returned kept in ret.

ProbeValidateRefreshToken(tokenHash) ==
    LET got == ValidateRefreshToken(refresh_tokens, users, tokenHash, now) IN
    /\ ret' = [NoRet EXCEPT !.op = "ValidateRefreshToken", !.n = tokenHash,
                            !.err = got.err, !.user = got.user]
    /\ UNCHANGED <<now, users, refresh_tokens, held, tokenTables, requests, limiter>>

ProbeValidateVerificationToken(token) ==
    LET got == ValidateVerificationToken(email_verifications, users, token, now) IN
    /\ ret' = [NoRet EXCEPT !.op = "ValidateVerificationToken", !.n = token,
                            !.err = got.err, !.user = got.user]
    /\ UNCHANGED <<now, users, refresh_tokens, held, tokenTables, requests, limiter>>

ProbeValidatePasswordResetToken(token) ==
    LET got == ValidatePasswordResetToken(password_resets, users, token, now) IN
    /\ ret' = [NoRet EXCEPT !.op = "ValidatePasswordResetToken", !.n = token,
                            !.err = got.err, !.user = got.user]
    /\ UNCHANGED <<now, users, refresh_tokens, held, tokenTables, requests, limiter>>

\* The rows a table can hold at time t for one token issued with the given
\* lifetime: none, or one issued at some time up to t and marked used or
\* revoked at some later time up to t, or not at all.
Issued(t, ttl) ==
    UNION {{[issued_at |-> c, expires_at |-> c + ttl, used_at |-> u] : u \in {NULL} \cup c..t}
           : c \in 0..t}

\* ------------------------------------------------------ specification ---

Init ==
    /\ now = 0
    /\ users = {}
    /\ refresh_tokens = {}
    /\ held = NoToken
    /\ ret = NoRet
    /\ email_verifications = {}
    /\ password_resets = {}
    /\ pc = [p \in Procs |-> "idle"]
    /\ loc = [p \in Procs |-> NoRet]
    /\ counters = [ip \in IPs |-> NoKey]
    /\ window = [ip \in IPs |-> [start |-> NULL, admitted |-> 0, last |-> NULL]]
    /\ resp = NoResp

\* Accounts: sign-up, sign-in and session validation over two accounts.
Next ==
    \/ \E e \in Emails, p \in Passwords, u \in Usernames : CreateUser(e, p, u)
    \/ \E e \in Emails, p \in Passwords : SignIn(e, p)
    \/ \E tok \in AccessInputs : ValidateSession(tok)
    \/ \E id \in 1..Cardinality(Emails) : DeleteUser(id)
    \/ Tick

Spec == Init /\ [][Next]_vars

\* Sessions: the refresh records of one account.
NextSession ==
    \/ \E p \in Passwords : CreateUser("a@x.io", p, "alice")
    \/ \E p \in Passwords : SignIn("a@x.io", p)
    \/ \E tok \in RefreshInputs \cup {held} : SignOut(tok)
    \/ \E tok \in RefreshInputs \cup {held} : RefreshSession(tok)
    \/ \E tok \in RefreshInputs \cup {held} : ValidateSession(tok)
    \/ DeleteUser(1)
    \/ Tick

SpecSession == Init /\ [][NextSession]_vars

\* Single-use tokens: the verification and reset tokens of one account,
\* each request handled from start to end before the next.
NextTok ==
    \/ CreateUser("a@x.io", "pw1", "alice")
    \/ \E e \in Emails : SendVerificationEmail(e)
    \/ \E n \in VerificationInputs : VerifyEmail(n)
    \/ \E e \in Emails : RequestPasswordReset(e)
    \/ \E n \in ResetInputs : ResetPassword(n, "pw2")
    \/ Tick

SpecTok == Init /\ [][NextTok]_vars

\* Tokens under parallel requests: one account's tokens are mailed, and two
\* requests present them while the other is under way.
NextConc ==
    \/ CreateUser("a@x.io", "pw1", "alice")
    \/ SendVerificationEmail("a@x.io")
    \/ RequestPasswordReset("a@x.io")
    \/ \E p \in Procs, n \in ResetInputs, w \in Passwords : ResetPasswordValidate(p, n, w)
    \/ \E p \in Procs : ResetPasswordUpdate(p)
    \/ \E p \in Procs : ResetPasswordRevoke(p)
    \/ \E p \in Procs, n \in VerificationInputs : VerifyEmailValidate(p, n)
    \/ \E p \in Procs : VerifyEmailMark(p)
    \/ Tick

SpecConc == Init /\ [][NextConc]_vars

\* The rate limiter, each request handled from start to end before the next.
NextLimiter ==
    \/ \E ip \in IPs : Middleware(ip)
    \/ Elapse

SpecLimiter == Init /\ [][NextLimiter]_vars

\* The rate limiter under parallel requests.
NextLimiterConc ==
    \/ \E p \in Procs, ip \in IPs : MiddlewareGet(p, ip)
    \/ \E p \in Procs : MiddlewareIncr(p)
    \/ \E p \in Procs : MiddlewareExpire(p)
    \/ Elapse

SpecLimiterConc == Init /\ [][NextLimiterConc]_vars

\* Password reset with failing collaborators: the reset requests of one
\* account, each handled from start to end before the next.
NextResetFault ==
    \/ CreateUser("a@x.io", "pw1", "alice")
    \/ \E e \in Emails : RequestPasswordReset(e)
    \/ \E e \in Emails,
          f \in {"GetUserByEmail", "StorePasswordResetToken", "SendPasswordResetEmail"} :
          RequestPasswordResetFailing(e, f)
    \/ \E n \in ResetInputs : ResetPassword(n, "pw2")
    \/ \E n \in ResetInputs,
          f \in {"ValidatePasswordResetToken", "UpdatePassword", "RevokePasswordResetToken"} :
          ResetPasswordFailing(n, "pw2", f)
    \/ Tick

SpecResetFault == Init /\ [][NextResetFault]_vars

\* Email verification with a failing store: the verification requests of
\* one account, each handled from start to end before the next.
NextVerifyFault ==
    \/ CreateUser("a@x.io", "pw1", "alice")
    \/ \E e \in Emails : SendVerificationEmail(e)
    \/ \E n \in VerificationInputs : VerifyEmail(n)
    \/ \E n \in VerificationInputs,
          f \in {"ValidateVerificationToken", "Begin", "updateUserQuery",
                 "updateTokenQuery", "Commit"} :
          VerifyEmailFailing(n, f)
    \/ Tick

SpecVerifyFault == Init /\ [][NextVerifyFault]_vars

\* The validations over the stores one account can have left: any time, the
\* account active or deactivated, and in each table no row or one row that
\* is fresh, expired, used or revoked.
InitValidate ==
    /\ now \in 0..MaxTime
    /\ refresh_tokens \in {{}} \cup
          {{[token_hash |-> 1, user_id |-> 1, expires_at |-> i.expires_at,
             revoked_at |-> i.used_at]} : i \in Issued(now, RefreshTokenTTL)}
    /\ email_verifications \in {{}} \cup
          {{[token |-> 1, user_id |-> 1, expires_at |-> i.expires_at,
             used_at |-> i.used_at]} : i \in Issued(now, VerificationTTL)}
    /\ password_resets \in {{}} \cup
          {{[token |-> 1, user_id |-> 1, expires_at |-> i.expires_at,
             used_at |-> i.used_at]} : i \in Issued(now, ResetTTL)}
    /\ users \in {{[id |-> 1, email |-> "a@x.io", username |-> "alice",
                    hashed_password |-> GenerateFromPassword("pw1"),
                    is_active |-> a,
                    is_verified |-> \E ev \in email_verifications : ev.used_at # NULL]}
                  : a \in BOOLEAN}
    /\ held = NoToken
    /\ ret = NoRet
    /\ pc = [p \in Procs |-> "idle"]
    /\ loc = [p \in Procs |-> NoRet]
    /\ counters = [ip \in IPs |-> NoKey]
    /\ window = [ip \in IPs |-> [start |-> NULL, admitted |-> 0, last |-> NULL]]
    /\ resp = NoResp

NextValidate ==
    \/ \E h \in 0..1 : ProbeValidateRefreshToken(h)
    \/ \E n \in 0..1 : ProbeValidateVerificationToken(n)
    \/ \E n \in 0..1 : ProbeValidatePasswordResetToken(n)

SpecValidate == InitValidate /\ [][NextValidate]_vars

\* The gate: two accounts, their sign-ins, and requests to the routes
\* behind and beside JWTAuth.Middleware.
NextGate ==
    \/ \E a \in {<<"a@x.io", "alice">>, <<"b@x.io", "bob">>} : CreateUser(a[1], "pw1", a[2])
    \/ \E e \in Emails : SignIn(e, "pw1")
    \/ \E id \in 1..Cardinality(Emails) : DeleteUser(id)
    \/ \E path \in {"/api/posts", "/api/auth/signin"}, h \in GateHeaders :
          AuthMiddleware(path, h)
    \/ \E h \in GateHeaders : Me(h)
    \/ \E h \in GateHeaders : Signout(h)
    \/ \E tok \in RefreshInputs : RefreshSession(tok)
    \/ Tick

SpecGate == Init /\ [][NextGate]_vars

\* The gate with a failing store: the requests of NextGate, and those
\* during which GetUserByID fails.
NextGateFault ==
    \/ NextGate
    \/ \E tok \in AccessInputs : ValidateSessionFailing(tok)
    \/ \E h \in GateHeaders : AuthMiddlewareFailing("/api/posts", h)

SpecGateFault == Init /\ [][NextGateFault]_vars

\* Sign-up under parallel requests: two requests create accounts while the
\* other is under way, and accounts are deactivated.
NextSignupConc ==
    \/ \E p \in Procs, e \in Emails, u \in Usernames : CreateUserCheck(p, e, "pw1", u)
    \/ \E p \in Procs : CreateUserInsert(p)
    \/ \E e \in Emails, u \in Usernames : CreateUser(e, "pw1", u)
    \/ \E id \in 1..Cardinality(Emails) : DeleteUser(id)

SpecSignupConc == Init /\ [][NextSignupConc]_vars

\* Password reset beside a session: one account signs in, asks for reset
\* tokens and presents them, and its refresh token is used.
NextReset ==
    \/ CreateUser("a@x.io", "pw1", "alice")
    \/ \E w \in Passwords : SignIn("a@x.io", w)
    \/ RequestPasswordReset("a@x.io")
    \/ \E n \in ResetInputs : ResetPassword(n, "pw2")
    \/ \E tok \in RefreshInputs : RefreshSession(tok)
    \/ Tick

SpecReset == Init /\ [][NextReset]_vars

\* The rate limiter with a failing Redis, requests handled one at a time.
NextLimiterFault ==
    \/ \E ip \in IPs : Middleware(ip)
    \/ \E ip \in IPs, f \in {"Get", "Exec"} : MiddlewareFailing(ip, f)
    \/ Elapse

SpecLimiterFault == Init /\ [][NextLimiterFault]_vars

\* ------------------------------------------------------------- claims ---

Registered(us, email) == \E u \in us : u.email = email
UsernameTaken(us, username) == \E u \in us : u.username = username
PasswordMatches(us, email, password) ==
    \E u \in us : u.email = email /\ CompareHashAndPassword(u.hashed_password, password)
ActiveWith(us, email, password) ==
    \E u \in us : /\ u.email = email /\ u.is_active
                   /\ CompareHashAndPassword(u.hashed_password, password)
ActiveID(us, id) == \E u \in us : u.id = id /\ u.is_active
InactiveID(us, id) == \E u \in us : u.id = id /\ ~u.is_active

\* After this step a SignIn with (email, password) succeeds and ValidateSession
\* accepts the access token it returns.
SignInThenValidateSucceeds(email, password) ==
    LET chk == SignInCheck(users', email, password)
        tok == generateAccessToken(chk.user, now')
    IN /\ chk.err = Nil
       /\ ValidateSessionResult(users', tok, now').err = Nil

C2_WrongPasswordLikeUnknownEmail ==
    (ret.op = "SignIn" /\ ~PasswordMatches(users, ret.email, ret.password))
        => ret.err = ErrInvalidCredentials

\* C2 witness: a signIn of an active account with a wrong password has failed.
C2_Witness ==
    /\ ret.op = "SignIn" /\ ret.err = ErrInvalidCredentials
    /\ \E u \in users : u.email = ret.email /\ u.is_active
    /\ ~PasswordMatches(users, ret.email, ret.password)

\* C3: signIn for a deactivated account fails with ErrInvalidCredentials,
\* whatever the password; no "account is deactivated" error is returned.
C3_DeactivatedLikeUnknown ==
    (ret.op = "SignIn" /\ \E u \in users : u.email = ret.email /\ ~u.is_active)
        => ret.err = ErrInvalidCredentials

\* C3 witness: a signIn with the right password of a deactivated account has
\* failed.
C3_Witness ==
    /\ ret.op = "SignIn" /\ ret.err = ErrInvalidCredentials
    /\ \E u \in users : /\ u.email = ret.email /\ ~u.is_active
                         /\ CompareHashAndPassword(u.hashed_password, ret.password)

\* C7: validateSession fails for every access token whose exp is in the past,
\* whatever the state of the account and however the token is signed.
C7_ExpiredRejected ==
    (ret.op = "ValidateSession" /\ ret.tok.exp < now) => ret.err # Nil

\* C7 witness: the token issued by signIn to a still active account has been
\* rejected after its expiry.
C7_Witness ==
    /\ ret.op = "ValidateSession" /\ held # NoToken /\ ret.tok = held
    /\ held.exp < now /\ ActiveID(users, held.user_id) /\ ret.err # Nil

\* C8: validateSession rejects every access token of a deactivated account.
C8_DeactivatedRejected ==
    (ret.op = "ValidateSession" /\ InactiveID(users, ret.tok.user_id)) => ret.err # Nil

\* C8 witness: an unexpired token issued by signIn before the account was
\* deactivated has been rejected.
C8_Witness ==
    /\ ret.op = "ValidateSession" /\ held # NoToken /\ ret.tok = held
    /\ now < held.exp /\ InactiveID(users, held.user_id) /\ ret.err = ErrDeactivated

\* C9 as stated: a token is accepted only if its header names HS256.
C9_OnlyHS256Accepted ==
    (ret.op = "ValidateSession" /\ ret.err = Nil) => ret.tok.alg = "HS256"

RecordOf(rts, rt) == {r \in rts : r.token_hash = rt.token_hash}

\* C6: a refresh record that is revoked or whose expiry has passed makes
\* refreshSession fail, and no step clears a revocation time or changes an
\* expiry.
C6_RevokedOrExpiredStaysInvalid ==
    [][\A rt \in refresh_tokens :
         /\ \A r \in RecordOf(refresh_tokens', rt) :
               /\ r.expires_at = rt.expires_at
               /\ rt.revoked_at # NULL => r.revoked_at = rt.revoked_at
         /\ RecordOf(refresh_tokens', rt) # {}
         /\ (ret'.op = "RefreshSession" /\ ret'.tok = RefreshJWT(rt)
                /\ (rt.revoked_at # NULL \/ rt.expires_at <= now))
            => ret'.err # Nil]_vars

\* C6 witness: refreshSession has failed for an unexpired record that signOut
\* revoked.
C6_Witness ==
    /\ ret.op = "RefreshSession" /\ ret.err # Nil
    /\ \E rt \in refresh_tokens :
          /\ ret.tok = RefreshJWT(rt) /\ rt.revoked_at # NULL /\ now < rt.expires_at

UsedRow(rows, token) == \E tk \in rows : tk.token = token /\ tk.used_at # NULL

C5_AtMostOneConcurrentUse ==
    \A p, q \in Procs :
        (/\ p # q
         /\ pc[p] = "done" /\ pc[q] = "done"
         /\ loc[p].op = loc[q].op /\ loc[p].n = loc[q].n
         /\ loc[p].err = Nil)
            => loc[q].err # Nil

\* C10: when MaxRequests requests of a key have been admitted in the window
\* that is open for it, the next request of that key in that window is
\* answered 429 and is not passed on to its handler.
C10_NextRequestRejected ==
    [][\A ip \in IPs :
          (/\ window[ip].start # NULL
           /\ now < window[ip].start + Window
           /\ window[ip].admitted >= MaxRequests
           /\ resp'.key = ip)
              => resp'.status = 429 /\ ~resp'.next]_vars

\* A request was answered 429 while the window of its key was open with
\* MaxRequests requests admitted in it.
C10_Witness ==
    /\ resp.status = 429
    /\ ~resp.next
    /\ window[resp.key].admitted = MaxRequests
    /\ now < window[resp.key].start + Window

\* C11: the first request of a key that arrives once Window has passed
\* since the start of the key's window is passed on to its handler, and the
\* key's counter restarts at 1.
C11_AdmittedAfterWindow ==
    [][\A ip \in IPs :
          (/\ window[ip].start # NULL
           /\ now >= window[ip].start + Window
           /\ resp'.key = ip)
              => resp'.next /\ counters'[ip].count = 1]_vars

\* C13: the retry_after of a 429 answer is the time left until the key of
\* the request expires.
C13_RetryAfterIsRemaining ==
    resp.status = 429 => resp.retry_after = counters[resp.key].expire_at - now

\* C12: whatever the interleaving of the requests of a key, no more than
\* MaxRequests of them are admitted in one window.
C12_AtMostMaxRequestsAdmitted ==
    \A ip \in IPs : window[ip].admitted <= MaxRequests

\* C14: every request to /request-password-reset whose body parses is
\* answered with status 200 and the one message, whether or not the email
\* belongs to an account and whatever the lookup, the insert of the token
\* and the dispatch of the mail did.
C14_SameResponse ==
    ret.op = "RequestPasswordReset" =>
        resp = [NoResp EXCEPT !.status = 200, !.body = ResetRequestedMessage]

\* The service failed for a registered email and the answer was the one
\* given for an email no account has.
C14_Witness ==
    /\ ret.op = "RequestPasswordReset"
    /\ ret.err # Nil
    /\ Registered(users, ret.email)
    /\ resp = [NoResp EXCEPT !.status = 200, !.body = ResetRequestedMessage]

\* C15: the service's RequestPasswordReset returns nil for every email and
\* every outcome of the store and of the mailer.
C15_ServiceAlwaysReturnsNil ==
    ret.op = "RequestPasswordReset" => ret.err = Nil

\* C16: a ResetPassword call that changed the account's password leaves the
\* token it presented marked used, also when the call returns an error.
C16_RevokedWhenPasswordUpdated ==
    [][(ret'.op = "ResetPassword" /\ users' # users)
          => UsedRow(password_resets', ret'.n)]_vars

VerifiedID(us, id) == \E u \in us : u.id = id /\ u.is_verified
UnusedOf(evs, id) == {ev.token : ev \in {e \in evs : e.user_id = id /\ e.used_at = NULL}}
UsedOf(evs, id) == {ev.token : ev \in {e \in evs : e.user_id = id /\ e.used_at # NULL}}

\* C17: MarkEmailVerified is all or nothing.  In every step, also one in
\* which Begin, an update or Commit fails, an account's is_verified is set
\* exactly if verification rows of the account are marked used; and in the
\* state that results an account that is verified has no unused
\* verification row, and one that is not verified has no used one.
C17_MarkVerifiedAllOrNothing ==
    [][\A id \in {u.id : u \in users} :
          /\ (~VerifiedID(users, id) /\ VerifiedID(users', id))
                <=> (UnusedOf(email_verifications, id) \cap UsedOf(email_verifications', id) # {})
          /\ VerifiedID(users', id) => UnusedOf(email_verifications', id) = {}
          /\ ~VerifiedID(users', id) => UsedOf(email_verifications', id) = {}]_vars

\* MarkEmailVerified failed after its first update, and neither the flag
\* nor the mark of the token is visible.
C17_Witness ==
    /\ ret.op = "VerifyEmail"
    /\ Is(ret.err, <<"failed to mark verification token as used", "store failure">>)
    /\ \E ev \in email_verifications :
          /\ ev.token = ret.n
          /\ ev.used_at = NULL
          /\ ~VerifiedID(users, ev.user_id)

\* The rows of the table a validation reads, as <<token, expiry, mark>>.
RowsRead(op) ==
    CASE op = "ValidateRefreshToken" ->
            {<<rt.token_hash, rt.expires_at, rt.revoked_at>> : rt \in refresh_tokens}
      [] op = "ValidateVerificationToken" ->
            {<<ev.token, ev.expires_at, ev.used_at>> : ev \in email_verifications}
      [] op = "ValidatePasswordResetToken" ->
            {<<pr.token, pr.expires_at, pr.used_at>> : pr \in password_resets}
Validations ==
    {"ValidateRefreshToken", "ValidateVerificationToken", "ValidatePasswordResetToken"}

\* C18: each of the three repository validations returns nil or the one
\* invalid-token error, and returns that same error for a token that is not
\* stored, for one that has expired, and for one that is marked used or
\* revoked.
C18_OneInvalidTokenError ==
    ret.op \in Validations =>
        /\ ret.err \in {Nil, ErrInvalidToken}
        /\ (\A row \in RowsRead(ret.op) :
               row[1] = ret.n => (row[2] <= now \/ row[3] # NULL))
              => ret.err = ErrInvalidToken

\* A reset token that was used and has not expired was refused with the
\* error that a token never stored gets.
C18_Witness ==
    /\ ret.op = "ValidatePasswordResetToken"
    /\ ret.err = ErrInvalidToken
    /\ \E pr \in password_resets :
          pr.token = ret.n /\ pr.used_at # NULL /\ pr.expires_at > now

\* C19: a RefreshSession call that succeeds returns an access token issued
\* now for the account that owns the refresh record, and leaves every
\* refresh record as it was, so that the record still validates.
C19_RefreshKeepsRecord ==
    [][(ret'.op = "RefreshSession" /\ ret'.err = Nil) =>
          /\ refresh_tokens' = refresh_tokens
          /\ \E rt \in refresh_tokens :
                /\ RefreshJWT(rt) = ret'.tok
                /\ ret'.user.id = rt.user_id
                /\ ret'.token = generateAccessToken(GetUserByID(users, rt.user_id).user, now)
                /\ parseAccessToken(ret'.token, now).claims.user_id = rt.user_id
                /\ ValidateRefreshToken(refresh_tokens', users', rt.token_hash, now).err = Nil]_vars

\* A refresh succeeded some time after the sign-in that stored its record.
C19_Witness ==
    /\ ret.op = "RefreshSession"
    /\ ret.err = Nil
    /\ ret.token.exp = now + AccessTokenTTL
    /\ \E rt \in refresh_tokens :
          /\ RefreshJWT(rt) = ret.tok
          /\ rt.expires_at - RefreshTokenTTL < now
          /\ rt.revoked_at = NULL

\* C20 as stated: a SignOut call with a refresh token whose record is
\* already revoked returns nil and changes no refresh record.
C20_SignOutIdempotent ==
    [][(/\ ret'.op = "SignOut"
        /\ \E rt \in refresh_tokens : RefreshJWT(rt) = ret'.tok /\ rt.revoked_at # NULL)
          => ret'.err = Nil /\ refresh_tokens' = refresh_tokens]_vars

\* C20 amended: a SignOut call with a refresh token that has not expired
\* and whose record is already revoked returns nil and changes no refresh
\* record; the record keeps the time of its first revocation.
C20_SignOutIdempotentUnexpired ==
    [][(/\ ret'.op = "SignOut"
        /\ ret'.tok.exp > now
        /\ \E rt \in refresh_tokens : RefreshJWT(rt) = ret'.tok /\ rt.revoked_at # NULL)
          => ret'.err = Nil /\ refresh_tokens' = refresh_tokens]_vars

\* A second SignOut, later than the first, returned nil and the record kept
\* the revocation time of the first.
C20_Witness ==
    /\ ret.op = "SignOut"
    /\ ret.err = Nil
    /\ \E rt \in refresh_tokens :
          RefreshJWT(rt) = ret.tok /\ rt.revoked_at # NULL /\ rt.revoked_at < now

\* C21: a CreateUser call with an email that an account already has, active
\* or deactivated, returns ErrUserExists and leaves the accounts as they
\* were.
C21_ExistingEmailIsUserExists ==
    [][(ret'.op = "CreateUser" /\ Registered(users, ret'.email))
          => ret'.err = ErrUserExists /\ users' = users]_vars

\* The routes registered behind JWTAuth.Middleware that the model requests.
GatedPaths == {"/api/posts", "/api/auth/me"}

\* The header of the last request starts with "Bearer " and ValidateSession
\* accepts what follows.
BearerAccepted ==
    /\ resp.header.scheme = "Bearer "
    /\ ValidateSessionResult(users, resp.header.token, now).err = Nil

C23_SignoutRevokesSession ==
    [][(/\ resp.path = "/api/auth/signout" /\ resp.status = 200
        /\ BearerAccepted
        /\ ret'.op = "RefreshSession"
        /\ ret'.tok.user_id = resp.header.token.user_id)
          => ret'.err # Nil]_vars

\* C24: /signout answers 200 only to a request whose bearer token
\* ValidateSession accepts.
C24_SignoutNeedsBearer ==
    (resp.path = "/api/auth/signout" /\ resp.status = 200) => BearerAccepted

\* The account record with the id a token was issued for.
AccountOf(tok) == {u \in users : u.id = tok.user_id}

\* C29: a ValidateSession that accepts a token, and a /me that answers 200 to
\* it, return the id, email and username of the account record whose id the
\* token carries, and of no other account; /me without an Authorization
\* header answers 401.
C29_IdentityBinding ==
    /\ (ret.op = "ValidateSession" /\ ret.err = Nil) =>
          \E u \in AccountOf(ret.tok) :
              /\ ret.user.id = u.id
              /\ ret.user.email = u.email
              /\ ret.user.username = u.username
    /\ (resp.path = "/api/auth/me" /\ resp.status = 200) =>
          \E u \in AccountOf(resp.header.token) :
              resp.user = UserResponse(u.id, u.email, u.username)
    /\ (resp.path = "/api/auth/me" /\ resp.header = NoHeader) => resp.status = 401

\* /me answered 200 to the token of one account while another account exists.
C29_Witness ==
    /\ resp.path = "/api/auth/me" /\ resp.status = 200
    /\ \E u \in AccountOf(resp.header.token) :
          resp.user = UserResponse(u.id, u.email, u.username)
    /\ \E v \in users : v.id # resp.header.token.user_id /\ v.is_active
    /\ ret.op = "ValidateSession" /\ ret.err = Nil

\* C25: a ValidateSession during which the store fails returns an internal
\* error, neither ErrUnauthorized nor an invalid-token error, and the gate
\* does not answer it with 401.
C25_StoreFailureIsInternal ==
    (ret.op = "ValidateSession" /\ ret.failAt = "GetUserByID") =>
        /\ ret.err # Nil
        /\ ~Is(ret.err, ErrUnauthorized)
        /\ ~Is(ret.err, ErrInvalidToken)
        /\ resp.status # 401

\* C26: when the call behind /signup, /signin, /verify-email or
\* /reset-password failed in the store, the handler answers 500 and its body
\* does not carry the error's text.
C26_UnexpectedFailureIs500 ==
    (/\ resp.path \in {"/api/auth/signup", "/api/auth/signin",
                       "/api/auth/verify-email", "/api/auth/reset-password"}
     /\ Is(ret.err, ErrStore))
        => resp.status = 500 /\ resp.error # ret.err

\* C27: a SignIn that succeeds adds exactly one refresh record, unrevoked and
\* expiring RefreshTokenTTL from now, and the token it returns to its caller
\* is that record's refresh token: RefreshSession's parse and
\* ValidateRefreshToken accept it.
C27_SignInHandsRefreshSecret ==
    [][(ret'.op = "SignIn" /\ ret'.err = Nil) =>
          /\ \E rt \in refresh_tokens' \ refresh_tokens :
                /\ refresh_tokens' = refresh_tokens \cup {rt}
                /\ rt.expires_at = now + RefreshTokenTTL
                /\ rt.revoked_at = NULL
                /\ rt.user_id = ret'.user.id
          /\ LET parsed == parseRefreshToken(ret'.token, now) IN
                /\ parsed.err = Nil
                /\ ValidateRefreshToken(refresh_tokens', users,
                                        parsed.claims.token_hash, now).err = Nil]_vars

\* The verification token n was issued to an account that is verified.
TokenOwnerVerified(n) ==
    \E ev \in email_verifications, u \in users :
        ev.token = n /\ u.id = ev.user_id /\ u.is_verified

\* C28: a VerifyEmail with a token of an account that is already verified
\* fails with ErrEmailAlreadyVerified, whatever the token's state; every other
\* failure is ErrInvalidToken; and a VerifyEmail that fails changes no account
\* and no token.
C28_AlreadyVerifiedIsTold ==
    [][ret'.op = "VerifyEmail" =>
          /\ TokenOwnerVerified(ret'.n) => ret'.err = ErrEmailAlreadyVerified
          /\ (ret'.err # Nil /\ ~TokenOwnerVerified(ret'.n)) => Is(ret'.err, ErrInvalidToken)
          /\ ret'.err # Nil =>
                users' = users /\ email_verifications' = email_verifications]_vars

\* C30: no counter key exists with a count and without an expiry.
C30_CounterHasExpiry ==
    \A ip \in IPs : counters[ip].count > 0 => counters[ip].expire_at # NULL

\* C31: no two account records have the same email, and of two CreateUser
\* calls with the same email that ran at the same time at most one returned
\* without an error.
C31_EmailUnique ==
    /\ \A u, v \in users : u.email = v.email => u = v
    /\ \A p, q \in Procs :
          (/\ p # q
           /\ pc[p] = "done" /\ pc[q] = "done"
           /\ loc[p].op = "CreateUser" /\ loc[q].op = "CreateUser"
           /\ loc[p].email = loc[q].email)
              => (loc[p].err # Nil \/ loc[q].err # Nil)

\* Two CreateUser calls with one email and different usernames both passed
\* the test of GetUserByEmail; one created the account, the other's INSERT
\* was refused.
C31_Witness ==
    \E p, q \in Procs :
        /\ pc[p] = "done" /\ pc[q] = "done"
        /\ loc[p].op = "CreateUser" /\ loc[q].op = "CreateUser"
        /\ loc[p].email = loc[q].email /\ loc[p].username # loc[q].username
        /\ loc[p].err = Nil
        /\ Is(loc[q].err, ErrUniqueViolation)
        /\ \E u \in users : u.email = loc[p].email /\ u.id = loc[p].user.id

\* A JWT signed by generateRefreshToken carries a token_hash; one signed by
\* generateAccessToken carries none.
IsRefreshJWT(tok) == tok.token_hash # 0
IsAccessJWT(tok) == tok # NoToken /\ tok.token_hash = 0

\* C32: ValidateSession rejects a refresh token, and RefreshSession rejects an
\* access token.
C32_TokenTypesApart ==
    /\ (ret.op = "ValidateSession" /\ IsRefreshJWT(ret.tok)) => ret.err # Nil
    /\ (ret.op = "RefreshSession" /\ IsAccessJWT(ret.tok)) => ret.err # Nil

\* The refresh records a JWT names that belong to a deactivated account.
DeactivatedRecords(tok) ==
    {rt \in refresh_tokens : rt.token_hash = tok.token_hash /\ InactiveID(users, rt.user_id)}

\* C33: RefreshSession fails for every refresh token of a deactivated
\* account, and so does SignIn with the email of a deactivated account.
C33_DeactivatedCannotRefresh ==
    /\ (ret.op = "RefreshSession" /\ DeactivatedRecords(ret.tok) # {}) => ret.err # Nil
    /\ (ret.op = "SignIn" /\ \E u \in users : u.email = ret.email /\ ~u.is_active)
          => ret.err # Nil

\* C33 witness: a RefreshSession with the token of an unexpired, unrevoked
\* record has failed because the owner is deactivated.
C33_Witness ==
    /\ ret.op = "RefreshSession" /\ ret.err # Nil
    /\ \E rt \in DeactivatedRecords(ret.tok) :
          rt.revoked_at = NULL /\ now < rt.expires_at /\ now < ret.tok.exp

\* C34: a ResetPassword that succeeds changes the password hash of the
\* token's account and the used_at of the presented token, and nothing else:
\* the other accounts, the refresh records, the verification tokens and the
\* other reset tokens are as before, and the refresh records and the other
\* unused reset tokens validate as they did.
C34_ResetChangesOnlyPasswordAndToken ==
    [][(ret'.op = "ResetPassword" /\ ret'.err = Nil) =>
          /\ \E pr \in password_resets :
                /\ pr.token = ret'.n /\ pr.used_at = NULL
                /\ password_resets' =
                      (password_resets \ {pr}) \cup {[pr EXCEPT !.used_at = now]}
                /\ \E u \in users :
                      /\ u.id = pr.user_id
                      /\ users' = (users \ {u}) \cup
                            {[u EXCEPT !.hashed_password = GenerateFromPassword(ret'.password)]}
          /\ refresh_tokens' = refresh_tokens
          /\ email_verifications' = email_verifications
          /\ \A rt \in refresh_tokens :
                ValidateRefreshToken(refresh_tokens', users', rt.token_hash, now).err
                   = ValidateRefreshToken(refresh_tokens, users, rt.token_hash, now).err
          /\ \A pr \in password_resets :
                pr.token # ret'.n =>
                   ValidatePasswordResetToken(password_resets', users', pr.token, now).err
                      = ValidatePasswordResetToken(password_resets, users, pr.token, now).err]_vars

\* C34 witness: a ResetPassword has succeeded while the account had a valid
\* refresh record and another unused reset token, and both still validate.
C34_Witness ==
    /\ ret.op = "ResetPassword" /\ ret.err = Nil
    /\ \E rt \in refresh_tokens :
          ValidateRefreshToken(refresh_tokens, users, rt.token_hash, now).err = Nil
    /\ \E pr \in password_resets :
          /\ pr.token # ret.n
          /\ ValidatePasswordResetToken(password_resets, users, pr.token, now).err = Nil
    /\ \E pr \in password_resets : pr.token = ret.n /\ pr.used_at = now

\* C35: once VerifyEmail has verified an account, every verification token
\* stored for the account is marked used and none of them validates.
C35_VerifiedAccountHasNoLiveToken ==
    \A u \in users : u.is_verified =>
        \A ev \in email_verifications : ev.user_id = u.id =>
            /\ ev.used_at # NULL
            /\ ValidateVerificationToken(email_verifications, users, ev.token, now).err # Nil

\* C35 witness: one VerifyEmail has marked two tokens of the account, the
\* presented one and another that was unused and unexpired.
C35_Witness ==
    /\ ret.op = "VerifyEmail" /\ ret.err = Nil
    /\ \E e1, e2 \in email_verifications :
          /\ e1.token = ret.n /\ e2.token # ret.n
          /\ e1.user_id = e2.user_id
          /\ e1.used_at = now /\ e2.used_at = now /\ now < e2.expires_at
          /\ \E u \in users : u.id = e1.user_id /\ u.is_verified

C37_LimiterFailsClosed ==
    [][resp'.failAt # "" =>
          /\ resp'.status = 500 /\ ~resp'.next
          /\ resp'.failAt = "Get" => counters' = counters]_vars

\* C37 witness: the pipeline failed for a request under the limit, after its
\* INCR was executed, and the request was answered 500.
C37_Witness ==
    /\ resp.failAt = "Exec" /\ resp.status = 500 /\ ~resp.next
    /\ counters[resp.key].count > 0 /\ counters[resp.key].expire_at = NULL

====
